---- MODULE Spec2Model ----
(***************************************************************************)
(* The serverless relay of api/proxy.ts: a handler invocation cut into      *)
(* steps at its awaits.  The environment (process.env) is drawn once; each *)
(* invocation draws a request, and the forward draws what the backend      *)
(* does.  Spec runs one invocation after another; SpecPair interleaves two *)
(* invocations at their awaits.  SpecThumb is the browser's thumbnail      *)
(* cache (app/utils/imageUtils.ts) and SpecAuth the authentication context *)
(* (app/context/AuthContext.tsx); each specification leaves the other      *)
(* components' variables at their initial values.                          *)
(*                                                                         *)
(* Header names are lower case throughout: Node lower-cases the inbound    *)
(* names, fetch's Headers iterates lower-cased names, and res.setHeader    *)
(* is case-insensitive.                                                    *)
(***************************************************************************)
EXTENDS Integers, Sequences, FiniteSets, TLC

(***************************************************************************)
(* JavaScript values                                                       *)
(***************************************************************************)
Undefined == [t |-> "undefined"]
Null == [t |-> "null"]
Str(s) == [t |-> "string", s |-> s]
Num(n) == [t |-> "number", n |-> n]
\* An object literal: its fields in insertion order, as <<key, value>> pairs.
Obj(fields) == [t |-> "object", f |-> fields]

\* A configuration check that takes only an unset variable for missing.
Falsy_UndefinedOnly(v) == v = Undefined

\* !x for the values an environment variable can hold.
Falsy(v) == v = Undefined \/ v = Str("")

NumText(n) ==
    CASE n = 0 -> "0" [] n = 1 -> "1" [] n = 2 -> "2" [] OTHER -> "n"

RECURSIVE JsonStringify(_)
RECURSIVE JsonFields(_, _)
\* JSON.stringify: a string is quoted, an object's fields are joined.
JsonStringify(v) ==
    CASE v.t = "string" -> "\"" \o v.s \o "\""
      [] v.t = "number" -> NumText(v.n)
      [] v.t = "object" -> "{" \o JsonFields(v.f, 1) \o "}"
      [] OTHER -> ""
JsonFields(fs, i) ==
    IF i > Len(fs) THEN ""
    ELSE (IF i > 1 THEN "," ELSE "")
         \o "\"" \o fs[i][1] \o "\":" \o JsonStringify(fs[i][2])
         \o JsonFields(fs, i + 1)

(***************************************************************************)
(* Configuration and inputs                                                *)
(***************************************************************************)
allowedOrigins ==
    { "https://backend.terrainfinity.ca",
      "http://backend.terrainfinity.ca",
      "https://crystalcloudpodcast.terrainfinity.ca",
      "http://crystalcloudpodcast.terrainfinity.ca",
      "https://bambicloudpodcast.terrainfinity.ca",
      "http://bambicloudpodcast.terrainfinity.ca",
      "https://glaumcloudpodcast.terrainfinity.ca",
      "http://glaumcloudpodcast.terrainfinity.ca",
      "http://localhost:3000",
      "http://localhost" }

FrontendUrls == { Undefined, Str(""), Str("https://frontend.example") }
\* The second backend URL has no scheme: new URL() rejects it.
BackendUrls ==
    { Undefined, Str(""), Str("https://backend.terrainfinity.ca"),
      Str("backend.terrainfinity.ca") }
VercelEnvs == { Undefined, Str("true"), Str("false") }
Envs ==
    [ VITE_FRONTEND_URL : FrontendUrls,
      VITE_BACKEND_URL : BackendUrls,
      VITE_VERCEL_ENV : VercelEnvs ]

\* The Origin header of a request: absent, two of the allow-list, one outside it.
RequestOrigins ==
    { Undefined,
      Str("https://crystalcloudpodcast.terrainfinity.ca"),
      Str("http://localhost:3000"),
      Str("https://evil.example") }

ThumbnailPrefix == "/api/proxy-thumbnail"
RequestUrls == { "/api/blogs/", ThumbnailPrefix \o "?url=x" }
IsThumbnailRoute(url) ==
    Len(url) >= Len(ThumbnailPrefix)
    /\ \E rest \in { "", "?url=x" } : url = ThumbnailPrefix \o rest

\* Method and parsed body, as the platform hands them to the handler.
MethodBodies ==
    { <<"GET", Undefined>>, <<"HEAD", Undefined>>, <<"OPTIONS", Undefined>>,
      <<"POST", Undefined>>, <<"POST", Str("hi")>>,
      <<"POST", Obj(<< <<"a", Num(1)>> >>)>> }

\* The inbound headers: host and accept always, origin when the request carries
\* it, and what the platform adds in front of the function: two x-vercel- headers
\* and x-forwarded-for.
InboundHeaders(o, platform) ==
    [ k \in {"host", "accept"}
            \cup (IF o = Undefined THEN {} ELSE {"origin"})
            \cup (IF platform
                  THEN {"x-vercel-id", "x-vercel-forwarded-for", "x-forwarded-for"}
                  ELSE {}) |->
        CASE k = "host" -> "frontend.example"
          [] k = "accept" -> "*/*"
          [] k = "origin" -> o.s
          [] k = "x-vercel-id" -> "iad1::abc"
          [] OTHER -> "203.0.113.7" ]

Requests ==
    { [ method |-> mb[1], url |-> u, headers |-> InboundHeaders(o, p), body |-> mb[2] ] :
        mb \in MethodBodies, u \in RequestUrls, o \in RequestOrigins, p \in BOOLEAN }

\* req.headers.origin
HeaderOrigin(r) ==
    IF "origin" \in DOMAIN r.headers THEN Str(r.headers["origin"]) ELSE Undefined

(***************************************************************************)
(* The backend                                                             *)
(***************************************************************************)
BackendStatuses == { 200, 201, 404, 500 }
BackendBodies == { "{\"a\":1}", "{ \"a\": 1 }", "Not Found" }
NoHeaders == [ k \in {} |-> "" ]
BackendHeaderSets ==
    { NoHeaders,
      [ k \in {"cache-control"} |-> "no-store" ],
      [ k \in {"access-control-allow-origin"} |-> "*" ] }
\* Response.ok
Ok(status) == status >= 200 /\ status <= 299

\* A response as fetch resolves it: the headers have arrived, the body is a
\* stream.  broken: the connection drops while the body is read, so reading it
\* rejects (only a 2xx body is ever read).
ResponsesWith(bodies) ==
    { r \in [ status : BackendStatuses, headers : BackendHeaderSets,
              body : bodies, broken : BOOLEAN ] : r.broken => Ok(r.status) }
BackendResponses == ResponsesWith(BackendBodies)

\* What fetch itself rejects with: a TypeError, or the platform's abort.
FetchFailures ==
    { [ name |-> "TypeError", message |-> "fetch failed" ],
      [ name |-> "AbortError", message |-> "This operation was aborted" ] }

NoResponse == [ status |-> 0, headers |-> NoHeaders, body |-> "", broken |-> FALSE ]
NoError == [ name |-> "", message |-> "" ]

\* JSON.parse on the backend's bodies: the value, or Undefined for a SyntaxError.
JsonParse(text) ==
    CASE text = "{\"a\":1}" -> Obj(<< <<"a", Num(1)>> >>)
      [] text = "{ \"a\": 1 }" -> Obj(<< <<"a", Num(1)>> >>)
      [] OTHER -> Undefined

(***************************************************************************)
(* State                                                                   *)
(***************************************************************************)
VARIABLES
    env,            \* process.env
    pc,             \* where the invocation stands
    req,            \* the inbound request
    origin,         \* the resolved CORS origin
    outbound,       \* the request handed to fetch
    calls,          \* the outbound network calls so far, in order
    logFailed,      \* some log post of this invocation failed
    response,       \* the backend's response
    bodyUsed,       \* response.bodyUsed
    error,          \* what the try block threw
    res,            \* the response under construction
    other,          \* a second invocation, suspended at one of its awaits
    thumbnailCache, \* imageUtils: cache key -> thumbnail URL
    sessionNsfw,    \* sessionStorage 'NSFW-Disclaimer-Accepted'
    inflight,       \* fetchThumbnail calls waiting for the proxy-thumbnail request
    lastCall,       \* the imageUtils call that returned last
    image,          \* the checkImageExists call under way
    localAuthToken, \* localStorage 'authToken'
    auth,           \* AuthProvider's state
    provider,       \* AuthProvider: "unmounted", "rendered", "mounted"
    now,            \* Date.now() / 1000
    lastAuthOp,     \* the AuthContext operation that ran last
    lastUseAuth     \* the last call of useAuth

\* The variables of one invocation, of the browser's thumbnail cache, and of the
\* authentication context.
invocationVars ==
    <<pc, req, origin, outbound, calls, logFailed, response, bodyUsed, error, res>>
thumbVars == <<thumbnailCache, sessionNsfw, inflight, lastCall, image>>
authVars == <<localAuthToken, auth, provider, now, lastAuthOp, lastUseAuth>>
beyondInvocation == <<other, thumbVars, authVars>>

vars == <<env, invocationVars, other, thumbVars, authVars>>

NoRequest == [ method |-> "", url |-> "", headers |-> NoHeaders, body |-> Undefined ]
NoOutbound == [ url |-> "", method |-> "", headers |-> NoHeaders, body |-> Undefined ]
FreshRes == [ status |-> 200, headers |-> NoHeaders, body |-> Undefined, sent |-> 0 ]

\* An invocation that has not started.
IdleInvocation ==
    [ pc |-> "idle", req |-> NoRequest, origin |-> Undefined, outbound |-> NoOutbound,
      calls |-> << >>, logFailed |-> FALSE, response |-> NoResponse,
      bodyUsed |-> FALSE, error |-> NoError, res |-> FreshRes ]

InitInvocation ==
    /\ pc = "idle"
    /\ req = NoRequest
    /\ origin = Undefined
    /\ outbound = NoOutbound
    /\ calls = << >>
    /\ logFailed = FALSE
    /\ response = NoResponse
    /\ bodyUsed = FALSE
    /\ error = NoError
    /\ res = FreshRes
    /\ other = IdleInvocation

\* The browser before any module code ran: an empty cache, empty storage.
NoCall == [ op |-> "none" ]
NoUseAuth == [ called |-> FALSE, inside |-> FALSE, threw |-> FALSE ]
defaultUser == [ id |-> Str(""), role |-> Null ]
InitialAuth ==
    [ isAuthenticated |-> FALSE, user |-> defaultUser, token |-> Null,
      loading |-> TRUE ]

\* A promise: pending, or fulfilled with a value.
Pending == [ state |-> "pending", value |-> FALSE ]
\* No checkImageExists call yet.
NoImageCheck ==
    [ called |-> FALSE, url |-> "", timeoutMs |-> 0, promise |-> Pending,
      timer |-> "none", events |-> << >>, settled |-> 0, seen |-> Null ]

InitThumbVars ==
    /\ thumbnailCache = NoHeaders
    /\ sessionNsfw = Null
    /\ inflight = << >>
    /\ lastCall = NoCall
    /\ image = NoImageCheck

InitAuthVars ==
    /\ localAuthToken = Null
    /\ auth = InitialAuth
    /\ provider = "unmounted"
    /\ now = 0
    /\ lastAuthOp = [ op |-> "none" ]
    /\ lastUseAuth = NoUseAuth

Init ==
    /\ env \in Envs
    /\ InitInvocation
    /\ InitThumbVars
    /\ InitAuthVars

(***************************************************************************)
(* The response object                                                     *)
(***************************************************************************)
\* res.setHeader(k, v)
SetHeader(h, k, v) == [ x \in DOMAIN h \cup {k} |-> IF x = k THEN v ELSE h[x] ]

\* res.status(s).json(v): the platform's helper sets content-type when none is set,
\* and sends the value.
SendJson(r, s, v) ==
    [ r EXCEPT !.status = s,
               !.headers = IF "content-type" \in DOMAIN r.headers THEN r.headers
                           ELSE SetHeader(r.headers, "content-type",
                                          "application/json; charset=utf-8"),
               !.body = v,
               !.sent = r.sent + 1 ]

\* sendLog: one post to the log server; a failed post is caught and only reported
\* on the console.
LogServer == "logs.terrainfinity.ca"
LogCall(message) == [ to |-> LogServer, what |-> message ]
SendLog(message) ==
    /\ calls' = Append(calls, LogCall(message))
    /\ \E ok \in BOOLEAN : logFailed' = (logFailed \/ ~ok)

(***************************************************************************)
(* The handler                                                             *)
(***************************************************************************)
\* An entry that starts from the headers the invocation before it has set.
Invoke_KeepsHeaders ==
    /\ pc \in {"idle", "done", "crashed"}
    /\ \E r \in Requests : req' = r
    /\ pc' = "started"
    /\ origin' = Undefined
    /\ outbound' = NoOutbound
    /\ calls' = << >>
    /\ logFailed' = FALSE
    /\ response' = NoResponse
    /\ bodyUsed' = FALSE
    /\ error' = NoError
    /\ res' = [ FreshRes EXCEPT !.headers = res.headers ]
    /\ UNCHANGED env
    /\ UNCHANGED beyondInvocation

\* The platform invokes the handler with a request.
Invoke ==
    /\ pc \in {"idle", "done", "crashed"}
    /\ \E r \in Requests : req' = r
    /\ pc' = "started"
    /\ origin' = Undefined
    /\ outbound' = NoOutbound
    /\ calls' = << >>
    /\ logFailed' = FALSE
    /\ response' = NoResponse
    /\ bodyUsed' = FALSE
    /\ error' = NoError
    /\ res' = FreshRes
    /\ UNCHANGED env
    /\ UNCHANGED beyondInvocation

LogRequestStarted ==
    /\ pc = "started"
    /\ SendLog("Proxy request started")
    /\ pc' = "config"
    /\ UNCHANGED <<env, req, origin, outbound, response, bodyUsed, error, res>>
    /\ UNCHANGED beyondInvocation

MissingFrontendBody ==
    Obj(<< <<"error", Str("VITE_FRONTEND_URL environment variable is not set")>> >>)
MissingBackendBody ==
    Obj(<< <<"error", Str("VITE_BACKEND_URL environment variable is not set")>> >>)

MissingFrontendUrl ==
    /\ pc = "config"
    /\ Falsy(env.VITE_FRONTEND_URL)
    /\ SendLog("Missing VITE_FRONTEND_URL")
    /\ res' = SendJson(res, 500, MissingFrontendBody)
    /\ pc' = "done"
    /\ UNCHANGED <<env, req, origin, outbound, response, bodyUsed, error>>
    /\ UNCHANGED beyondInvocation

\* A backend check that does not come after the frontend check.
MissingBackendUrl_First ==
    /\ pc = "config"
    /\ Falsy(env.VITE_BACKEND_URL)
    /\ SendLog("Missing VITE_BACKEND_URL")
    /\ res' = SendJson(res, 500, MissingBackendBody)
    /\ pc' = "done"
    /\ UNCHANGED <<env, req, origin, outbound, response, bodyUsed, error>>
    /\ UNCHANGED beyondInvocation

MissingBackendUrl ==
    /\ pc = "config"
    /\ ~Falsy(env.VITE_FRONTEND_URL)
    /\ Falsy(env.VITE_BACKEND_URL)
    /\ SendLog("Missing VITE_BACKEND_URL")
    /\ res' = SendJson(res, 500, MissingBackendBody)
    /\ pc' = "done"
    /\ UNCHANGED <<env, req, origin, outbound, response, bodyUsed, error>>
    /\ UNCHANGED beyondInvocation

\* Origin resolutions that get one of the three conditions wrong.
ResolveOrigin_FrontendOnly(e, r) == e.VITE_FRONTEND_URL.s
ResolveOrigin_EchoAny(e, r) ==
    LET isVercel == e.VITE_VERCEL_ENV = Str("true")
        o == HeaderOrigin(r)
    IN  IF ~isVercel /\ o # Undefined THEN o.s ELSE e.VITE_FRONTEND_URL.s
ResolveOrigin_NoFlag(e, r) ==
    LET o == HeaderOrigin(r)
    IN  IF o # Undefined /\ o.s \in allowedOrigins THEN o.s ELSE e.VITE_FRONTEND_URL.s

\* An origin resolution that takes an absent flag for 'true'.
ResolveOrigin_AbsentIsTrue(e, r) ==
    LET isVercel == e.VITE_VERCEL_ENV # Str("false")
        o == HeaderOrigin(r)
    IN  IF ~isVercel /\ ~Falsy(o) /\ o.s \in allowedOrigins
        THEN o.s
        ELSE e.VITE_FRONTEND_URL.s

\* The origin the CORS headers will carry.
ResolveOrigin(e, r) ==
    LET isVercel == e.VITE_VERCEL_ENV = Str("true")
        o == HeaderOrigin(r)
    IN  IF ~isVercel /\ ~Falsy(o) /\ o.s \in allowedOrigins
        THEN o.s
        ELSE e.VITE_FRONTEND_URL.s

DetermineOrigin ==
    /\ pc = "config"
    /\ ~Falsy(env.VITE_FRONTEND_URL)
    /\ ~Falsy(env.VITE_BACKEND_URL)
    /\ origin' = Str(ResolveOrigin(env, req))
    /\ SendLog("Determined origin")
    /\ pc' = "method"
    /\ UNCHANGED <<env, req, outbound, response, bodyUsed, error, res>>
    /\ UNCHANGED beyondInvocation

AllowMethods == "GET,POST,PUT,DELETE,OPTIONS"
AllowHeaders == "Content-Type,Authorization"

\* A preflight answer that leaves the status at its default.
PreflightResponse_DefaultStatus(r, o) ==
    [ r EXCEPT !.headers =
                   SetHeader(SetHeader(SetHeader(SetHeader(r.headers,
                       "access-control-allow-origin", o),
                       "access-control-allow-methods", AllowMethods),
                       "access-control-allow-headers", AllowHeaders),
                       "access-control-max-age", "86400"),
               !.sent = r.sent + 1 ]

\* The preflight answer: the four headers, 204, no body.
PreflightResponse(r, o) ==
    [ r EXCEPT !.headers =
                   SetHeader(SetHeader(SetHeader(SetHeader(r.headers,
                       "access-control-allow-origin", o),
                       "access-control-allow-methods", AllowMethods),
                       "access-control-allow-headers", AllowHeaders),
                       "access-control-max-age", "86400"),
               !.status = 204,
               !.sent = r.sent + 1 ]

HandleOptions ==
    /\ pc = "method"
    /\ req.method = "OPTIONS"
    /\ SendLog("Handling OPTIONS request")
    /\ res' = PreflightResponse(res, origin.s)
    /\ pc' = "done"
    /\ UNCHANGED <<env, req, origin, outbound, response, bodyUsed, error>>
    /\ UNCHANGED beyondInvocation

\* new URL(u).host: the host of an absolute URL; anything else throws.
BackendHosts == { "backend.terrainfinity.ca" }
ValidUrl(u) == \E h \in BackendHosts : u = "https://" \o h
UrlHost(u) == CHOOSE h \in BackendHosts : u = "https://" \o h

\* key.startsWith('x-vercel-'), over the header names a request can carry.
PlatformSuffixes == { "id", "forwarded-for", "deployment-url" }
IsPlatformHeader(k) == \E s \in PlatformSuffixes : k = "x-vercel-" \o s

\* Backend headers that keep the inbound host.
BackendHeaders_InboundHost(h, host) ==
    [ k \in { x \in DOMAIN h : ~IsPlatformHeader(x) } |-> h[k] ]

\* The headers for the backend: the inbound ones the platform did not add, and the
\* backend's host.
BackendHeaders(h, host) ==
    [ k \in { x \in DOMAIN h : ~IsPlatformHeader(x) } \cup {"host"} |->
        IF k = "host" THEN host ELSE h[k] ]

\* req.url?.replace(/^\/api/, '/api') || '': the replacement is the match itself.
TargetUrl(backendUrl, url) == backendUrl \o url

\* Lines 88-93 run before the try block: an invalid backend URL rejects the
\* handler's promise and the handler sends nothing.
BuildBackendRequest ==
    /\ pc = "method"
    /\ req.method # "OPTIONS"
    /\ IF ValidUrl(env.VITE_BACKEND_URL.s)
       THEN /\ outbound' = [ outbound EXCEPT
                               !.url = TargetUrl(env.VITE_BACKEND_URL.s, req.url),
                               !.headers = BackendHeaders(req.headers,
                                                          UrlHost(env.VITE_BACKEND_URL.s)) ]
            /\ SendLog("Making backend request")
            /\ pc' = "fetch"
       ELSE /\ pc' = "crashed"
            /\ UNCHANGED <<outbound, calls, logFailed>>
    /\ UNCHANGED <<env, req, origin, response, bodyUsed, error, res>>
    /\ UNCHANGED beyondInvocation

\* The body option of fetch.
FetchBody(r) ==
    IF r.method # "GET" /\ r.method # "HEAD"
    THEN (IF r.body = Undefined THEN Undefined ELSE Str(JsonStringify(r.body)))
    ELSE Undefined

Thrown(name, message) == [ name |-> name, message |-> message ]

\* A HEAD response has no body.
BackendResponsesFor(method) ==
    IF method = "HEAD" THEN ResponsesWith({""}) ELSE BackendResponses

\* The one call to the backend: it yields a response of any status, or rejects.
FetchBackend ==
    /\ pc = "fetch"
    /\ outbound' = [ outbound EXCEPT !.method = req.method, !.body = FetchBody(req) ]
    /\ calls' = Append(calls, [ to |-> UrlHost(env.VITE_BACKEND_URL.s), what |-> outbound.url ])
    /\ \/ \E b \in BackendResponsesFor(req.method) :
            /\ response' = b
            /\ pc' = "received"
            /\ error' = error
       \/ \E f \in FetchFailures :
            /\ error' = f
            /\ pc' = "caught"
            /\ response' = response
    /\ UNCHANGED <<env, req, origin, logFailed, bodyUsed, res>>
    /\ UNCHANGED beyondInvocation

\* Lines 108-124: a 2xx body is read as text for the log's snippet; when that read
\* rejects, the catch block takes over.
LogBackendResponse ==
    /\ pc = "received"
    /\ bodyUsed' = Ok(response.status)
    /\ IF Ok(response.status) /\ response.broken
       THEN /\ error' = Thrown("TypeError", "terminated")
            /\ pc' = "caught"
            /\ UNCHANGED <<calls, logFailed>>
       ELSE /\ SendLog("Received backend response")
            /\ pc' = "relay"
            /\ error' = error
    /\ UNCHANGED <<env, req, origin, outbound, response, res>>
    /\ UNCHANGED beyondInvocation

\* The relay's three CORS headers.
CorsHeaders(h, o) ==
    SetHeader(SetHeader(SetHeader(h,
        "access-control-allow-origin", o),
        "access-control-allow-methods", AllowMethods),
        "access-control-allow-headers", AllowHeaders)

\* for (const [key, value] of responseHeaders.entries()) res.setHeader(key, value)
CopyHeaders(h, bh) ==
    [ k \in DOMAIN h \cup DOMAIN bh |-> IF k \in DOMAIN bh THEN bh[k] ELSE h[k] ]

\* A relay that sets its CORS headers after the copy.
RelayHeaders_CorsLast(r, o, resp) == CorsHeaders(CopyHeaders(r.headers, resp.headers), o)

\* The headers of the relayed response.
RelayHeaders(r, o, resp) == CopyHeaders(CorsHeaders(r.headers, o), resp.headers)

ErrorResponseBody == Obj(<< <<"error", Str("Error response")>> >>)

\* response.json(): rejects when the body was read before, or is not JSON.
ResponseJson(resp, used) ==
    IF used
    THEN [ threw |-> TRUE, value |-> Undefined,
           error |-> Thrown("TypeError", "Body is unusable: Body has already been read") ]
    ELSE IF JsonParse(resp.body) = Undefined
    THEN [ threw |-> TRUE, value |-> Undefined,
           error |-> Thrown("SyntaxError", "Unexpected token in JSON") ]
    ELSE [ threw |-> FALSE, value |-> JsonParse(resp.body), error |-> NoError ]

\* The data handed to res.send.
ResponseData(resp, used) ==
    IF Ok(resp.status)
    THEN ResponseJson(resp, used)
    ELSE [ threw |-> FALSE, value |-> ErrorResponseBody, error |-> NoError ]

\* Lines 126-137: headers and status are set, then the body is parsed and sent.
RelayResponse ==
    /\ pc = "relay"
    /\ LET staged == [ res EXCEPT !.headers = RelayHeaders(res, origin.s, response),
                                  !.status = response.status ]
           data == ResponseData(response, bodyUsed)
       IN  IF data.threw
           THEN /\ res' = staged
                /\ error' = data.error
                /\ pc' = "caught"
           ELSE /\ res' = SendJson(staged, staged.status, data.value)
                /\ error' = error
                /\ pc' = "done"
    /\ UNCHANGED <<env, req, origin, outbound, calls, logFailed, response, bodyUsed>>
    /\ UNCHANGED beyondInvocation

\* error instanceof Error ? error.message : ...
ErrorMessage(e) == e.message

\* An envelope without the failure's message.
ProxyErrorBody_NoDetails(e) ==
    Obj(<< <<"error", Str("Failed to proxy request")>> >>)

\* The relay's own error envelope.
ProxyErrorBody(e) ==
    Obj(<< <<"error", Str("Failed to proxy request")>>,
           <<"details", Str(ErrorMessage(e))>> >>)

\* A catch block that tries the backend again after a failed call.
ProxyError_Retry ==
    /\ pc = "caught"
    /\ SendLog("Proxy error occurred")
    /\ IF error \in FetchFailures
       THEN pc' = "fetch" /\ res' = res
       ELSE pc' = "done" /\ res' = SendJson(res, 500, Obj(<< >>))
    /\ UNCHANGED <<env, req, origin, outbound, response, bodyUsed, error>>
    /\ UNCHANGED beyondInvocation

\* The catch block.
ProxyError ==
    /\ pc = "caught"
    /\ SendLog("Proxy error occurred")
    /\ res' = SendJson(res, 500, ProxyErrorBody(error))
    /\ pc' = "done"
    /\ UNCHANGED <<env, req, origin, outbound, response, bodyUsed, error>>
    /\ UNCHANGED beyondInvocation

Next ==
    \/ Invoke
    \/ LogRequestStarted
    \/ MissingFrontendUrl
    \/ MissingBackendUrl
    \/ DetermineOrigin
    \/ HandleOptions
    \/ BuildBackendRequest
    \/ FetchBackend
    \/ LogBackendResponse
    \/ RelayResponse
    \/ ProxyError

Spec == Init /\ [][Next]_vars

(***************************************************************************)
(* Two invocations of the handler                                          *)
(***************************************************************************)
\* The platform runs invocations of the function concurrently in one process:
\* at each await the event loop may resume another invocation.  The running
\* invocation's locals are the variables, the suspended one's are in other.
Suspended ==
    [ pc |-> pc, req |-> req, origin |-> origin, outbound |-> outbound,
      calls |-> calls, logFailed |-> logFailed, response |-> response,
      bodyUsed |-> bodyUsed, error |-> error, res |-> res ]

Switch ==
    /\ other' = Suspended
    /\ pc' = other.pc
    /\ req' = other.req
    /\ origin' = other.origin
    /\ outbound' = other.outbound
    /\ calls' = other.calls
    /\ logFailed' = other.logFailed
    /\ response' = other.response
    /\ bodyUsed' = other.bodyUsed
    /\ error' = other.error
    /\ res' = other.res
    /\ UNCHANGED <<env, thumbVars, authVars>>

\* The inputs of the two-invocation runs: a complete configuration, one without
\* the frontend URL, one without the backend URL, each with the platform flag
\* absent or set; a read, a preflight and a write from an allowed and from
\* another origin; a 2xx and a non-2xx backend answer, and a fetch that rejects.
PairEnvs ==
    { e \in Envs :
        /\ e.VITE_VERCEL_ENV # Str("false")
        /\ e.VITE_FRONTEND_URL # Str("")
        /\ e.VITE_BACKEND_URL \in { Undefined, Str("https://backend.terrainfinity.ca") }
        /\ (e.VITE_FRONTEND_URL = Undefined => e.VITE_BACKEND_URL # Undefined) }
PairRequests ==
    { r \in Requests :
        /\ r.url = "/api/blogs/"
        /\ "x-vercel-id" \notin DOMAIN r.headers
        /\ HeaderOrigin(r) \in { Str("http://localhost:3000"), Str("https://evil.example") }
        /\ \/ r.method \in {"GET", "OPTIONS"}
           \/ r.method = "POST" /\ r.body # Undefined /\ r.body.t = "object" }
PairResponses ==
    { b \in BackendResponses :
        /\ ~b.broken
        /\ \/ b.status = 200 /\ b.body = "{\"a\":1}" /\ b.headers = NoHeaders
           \/ b.status = 404 /\ b.body = "Not Found" /\ b.headers # NoHeaders }
PairFailures == { f \in FetchFailures : f.name = "TypeError" }

InitPair == Init /\ env \in PairEnvs
InvokePair == Invoke /\ req' \in PairRequests
FetchBackendPair ==
    FetchBackend /\ response' \in PairResponses \cup {NoResponse}
                 /\ error' \in PairFailures \cup {NoError}

NextPair ==
    \/ InvokePair
    \/ LogRequestStarted
    \/ MissingFrontendUrl
    \/ MissingBackendUrl
    \/ DetermineOrigin
    \/ HandleOptions
    \/ BuildBackendRequest
    \/ FetchBackendPair
    \/ LogBackendResponse
    \/ RelayResponse
    \/ ProxyError
    \/ Switch

SpecPair == InitPair /\ [][NextPair]_vars

(***************************************************************************)
(* app/utils/imageUtils.ts: the thumbnail cache                            *)
(***************************************************************************)
\* x in a condition, for a string, undefined or null.
Truthy(v) == v.t = "string" /\ v.s # ""
\* a || b
Or(a, b) == IF Truthy(a) THEN a ELSE b

\* s.startsWith(m), and m found in s at position i.
HasAt(s, i, m) == i + Len(m) - 1 <= Len(s) /\ SubSeq(s, i, i + Len(m) - 1) = m
StartsWith(s, m) == HasAt(s, 1, m)
Chars(s) == { SubSeq(s, i, i) : i \in 1..Len(s) }

\* encodeURIComponent on the characters the posts' URLs and dates contain.
EncodeChar(c) ==
    CASE c = ":" -> "%3A" [] c = "/" -> "%2F" [] c = "?" -> "%3F"
      [] c = "=" -> "%3D" [] c = "&" -> "%26" [] c = " " -> "%20"
      [] OTHER -> c
RECURSIVE encodeURIComponent(_)
encodeURIComponent(s) ==
    IF s = "" THEN ""
    ELSE EncodeChar(SubSeq(s, 1, 1)) \o encodeURIComponent(SubSeq(s, 2, Len(s)))

\* getYouTubeID.  The alternatives of the regular expression's first group, as
\* the length matched at position i (0: none); the unescaped dot of youtu.be
\* matches any character.
WordChars == Chars("abcdefghijklmnopqrstuvwxyzABCDEFGHIJKLMNOPQRSTUVWXYZ0123456789_")
MarkerLen(s, i) ==
    CASE HasAt(s, i, "youtu") /\ HasAt(s, i + 6, "be/") -> 9
      [] HasAt(s, i, "v/") -> 2
      [] HasAt(s, i, "u/") /\ HasAt(s, i + 3, "/")
            /\ SubSeq(s, i + 2, i + 2) \in WordChars -> 4
      [] HasAt(s, i, "embed/") -> 6
      [] HasAt(s, i, "watch?v=") -> 8
      [] HasAt(s, i, "&v=") -> 3
      [] OTHER -> 0
\* The greedy .* in front of the group: the last position where it matches.
RECURSIVE LastMarker(_, _)
LastMarker(s, i) ==
    IF i = 0 THEN 0
    ELSE IF MarkerLen(s, i) > 0 THEN i
    ELSE LastMarker(s, i - 1)
\* ([^#&?]*) from position i on.
RECURSIVE IdRun(_, _)
IdRun(s, i) ==
    IF i > Len(s) \/ SubSeq(s, i, i) \in {"#", "&", "?"} THEN ""
    ELSE SubSeq(s, i, i) \o IdRun(s, i + 1)
getYouTubeID(url) ==
    LET at == LastMarker(url, Len(url))
        id == IF at = 0 THEN "" ELSE IdRun(url, at + MarkerLen(url, at))
    IN  IF at # 0 /\ Len(id) = 11 THEN Str(id) ELSE Null

getDefaultImage(isAgeRestricted) ==
    IF isAgeRestricted THEN "/assets/images/NSFW.jpg" ELSE "/assets/images/consciousness.jpg"

normalizeUrl(url) ==
    IF ~Truthy(url) THEN Null
    ELSE IF StartsWith(url.s, "http") THEN url ELSE Str("https://" \o url.s)

\* The posts: a YouTube video behind the age restriction; two posts whose
\* thumbnail the proxy-thumbnail route must find, one of them restricted, dated
\* and with an image of its own; a post with an image only; a post with nothing.
NoUrls == [ videoUrl |-> Undefined, embedUrl |-> Undefined, postUrl |-> Undefined ]
Post(id, updatedAt, restricted, urls, blogImage) ==
    [ id |-> id, updatedAt |-> updatedAt, isAgeRestricted |-> restricted,
      videoUrl |-> urls.videoUrl, embedUrl |-> urls.embedUrl, postUrl |-> urls.postUrl,
      blogImage |-> blogImage ]
Blogs ==
    { Post("p1", Str("2024-01-02T03:04"), TRUE,
           [ NoUrls EXCEPT !.videoUrl = Str("youtu.be/dQw4w9WgXcQ") ], Undefined),
      Post("p2", Undefined, FALSE,
           [ NoUrls EXCEPT !.postUrl = Str("https://vimeo.com/1") ], Undefined),
      Post("p3", Str("2024-01-02T03:04"), TRUE,
           [ NoUrls EXCEPT !.embedUrl = Str("rumble.com/embed-1") ], Str("/img/p3.png")),
      Post("p4", Str("2024-01-02T03:04"), FALSE, NoUrls, Str("/img/p4.png")),
      Post("p5", Undefined, FALSE, NoUrls, Str("")) }

\* What axios.get resolves with or rejects: data with a thumbnail, with an empty
\* one, without one; a network error or a non-2xx status.
ProxyThumbnailOutcomes ==
    { [ ok |-> TRUE, thumbnail |-> Str("https://cdn.example/t1.jpg") ],
      [ ok |-> TRUE, thumbnail |-> Str("") ],
      [ ok |-> TRUE, thumbnail |-> Undefined ],
      [ ok |-> FALSE, thumbnail |-> Undefined ] }

\* The most fetchThumbnail calls waiting for their request at a time.
MaxInFlight == 2

NsfwImage == "/assets/images/NSFW.jpg"

\* Line 69.
CacheKey(b) == IF Truthy(b.updatedAt) THEN b.id \o ":" \o b.updatedAt.s ELSE b.id
\* thumbnailCache[key] in a condition.
Cached(cache, key) == key \in DOMAIN cache /\ cache[key] # ""
\* thumbnailCache[key] = value
CachePut(cache, key, value) ==
    [ k \in DOMAIN cache \cup {key} |-> IF k = key THEN value ELSE cache[k] ]
\* `?v=${encodeURIComponent(updatedAt)}` and `&v=...`, when the post has a date.
Version(sep, b) ==
    IF Truthy(b.updatedAt) THEN sep \o "v=" \o encodeURIComponent(b.updatedAt.s) ELSE ""
\* Line 85.
UrlToCheck(b) ==
    Or(normalizeUrl(b.videoUrl), Or(normalizeUrl(b.embedUrl), normalizeUrl(b.postUrl)))
\* Lines 96-100, without the origin in front of the path.
ApiUrl(b) ==
    ThumbnailPrefix \o "?url=" \o encodeURIComponent(UrlToCheck(b).s) \o Version("&", b)
Fallback_BlogImageOnly(b) == Or(b.blogImage, Str("")).s

\* blogImage || getDefaultImage(isAgeRestricted)
Fallback(b) == Or(b.blogImage, Str(getDefaultImage(b.isAgeRestricted))).s

\* fetchThumbnail up to its return or its await (lines 66-101): how it ends and
\* with which value.
FetchThumbnailStart(b, cache, session) ==
    LET key == CacheKey(b)
        nsfwDisclaimerAccepted == session = Str("true")
        urlToCheck == UrlToCheck(b)
        youtubeId == getYouTubeID(urlToCheck.s)
    IN  IF Cached(cache, key)
        THEN [ how |-> "cached", value |-> cache[key] ]
        ELSE IF b.isAgeRestricted /\ ~nsfwDisclaimerAccepted
        THEN [ how |-> "nsfw", value |-> NsfwImage ]
        ELSE IF Truthy(urlToCheck)
        THEN IF Truthy(youtubeId)
             THEN [ how |-> "youtube",
                    value |-> "https://img.youtube.com/vi/" \o youtubeId.s \o "/0.jpg"
                                  \o Version("?", b) ]
             ELSE [ how |-> "request", value |-> ApiUrl(b) ]
        ELSE IF Truthy(b.blogImage)
        THEN [ how |-> "image", value |-> b.blogImage.s \o Version("?", b) ]
        ELSE [ how |-> "default", value |-> getDefaultImage(b.isAgeRestricted) ]

\* Lines 102-112: the value after the request has resolved or rejected.
FetchThumbnailEnd(b, outcome) ==
    IF outcome.ok
    THEN Or(outcome.thumbnail, Str(Fallback(b))).s
    ELSE Fallback(b)

\* A call that has returned: the post, the disclaimer's choice when the call was
\* made, the cache just before the return, how the call ended, with what, and
\* whether it issued the request.
Returned(b, session, start, how, value, requested) ==
    [ op |-> "fetchThumbnail", blog |-> b, session |-> session, before |-> start,
      how |-> how, result |-> value, requested |-> requested ]

\* A component calls fetchThumbnail(b).  The call returns at once, storing its
\* value unless it came from the cache, or it issues the proxy-thumbnail
\* request and waits.
fetchThumbnail ==
    \E b \in Blogs :
        LET start == FetchThumbnailStart(b, thumbnailCache, sessionNsfw) IN
        /\ IF start.how = "request"
           THEN /\ Len(inflight) < MaxInFlight
                /\ inflight' = Append(inflight,
                        [ blog |-> b, session |-> sessionNsfw, url |-> start.value ])
                /\ UNCHANGED <<thumbnailCache, lastCall>>
           ELSE /\ thumbnailCache' = IF start.how = "cached" THEN thumbnailCache
                                     ELSE CachePut(thumbnailCache, CacheKey(b), start.value)
                /\ lastCall' = Returned(b, sessionNsfw, thumbnailCache, start.how,
                                        start.value, FALSE)
                /\ UNCHANGED inflight
        /\ UNCHANGED <<env, invocationVars, other, sessionNsfw, authVars, image>>

\* The request of a waiting call resolves or rejects; the call stores its
\* value and returns it.
Without(seq, i) == SubSeq(seq, 1, i - 1) \o SubSeq(seq, i + 1, Len(seq))
fetchThumbnailResumes ==
    \E i \in 1..Len(inflight), outcome \in ProxyThumbnailOutcomes :
        LET call == inflight[i]
            value == FetchThumbnailEnd(call.blog, outcome)
        IN  /\ thumbnailCache' = CachePut(thumbnailCache, CacheKey(call.blog), value)
            /\ inflight' = Without(inflight, i)
            /\ lastCall' = Returned(call.blog, call.session, thumbnailCache,
                                    IF ~outcome.ok THEN "error"
                                    ELSE IF Truthy(outcome.thumbnail) THEN "thumbnail"
                                    ELSE "noThumbnail",
                                    value, TRUE)
            /\ UNCHANGED <<env, invocationVars, other, sessionNsfw, authVars, image>>

\* The two buttons of the disclaimer modal (LandingDisclaimerModal.tsx:88-111).
AcceptNsfw ==
    /\ sessionNsfw' = Str("true")
    /\ UNCHANGED <<env, invocationVars, other, thumbnailCache, inflight, lastCall, authVars, image>>
ContinueSfw ==
    /\ sessionNsfw' = Str("false")
    /\ UNCHANGED <<env, invocationVars, other, thumbnailCache, inflight, lastCall, authVars, image>>

\* A caller that has the reference of the cache itself.
getCachedThumbnails_Reference ==
    /\ lastCall' = [ op |-> "getCachedThumbnails", result |-> thumbnailCache,
                     isCache |-> TRUE ]
    /\ UNCHANGED <<env, invocationVars, other, thumbnailCache, sessionNsfw, inflight, authVars, image>>

\* getCachedThumbnails: { ...thumbnailCache }, a new object with the cache's
\* entries.
getCachedThumbnails ==
    /\ lastCall' = [ op |-> "getCachedThumbnails", result |-> thumbnailCache,
                     isCache |-> FALSE ]
    /\ UNCHANGED <<env, invocationVars, other, thumbnailCache, sessionNsfw, inflight, authVars, image>>

\* The caller writes into the object getCachedThumbnails gave it; the cache
\* follows only if that object is the cache.
CallerEntries == { <<"p2", "/img/other.png">>, <<"p9", "/img/other.png">> }
CallerWrites ==
    /\ lastCall.op = "getCachedThumbnails"
    /\ \E e \in CallerEntries :
        /\ lastCall' = [ lastCall EXCEPT !.result = CachePut(@, e[1], e[2]) ]
        /\ thumbnailCache' = IF lastCall.isCache
                             THEN CachePut(thumbnailCache, e[1], e[2])
                             ELSE thumbnailCache
    /\ UNCHANGED <<env, invocationVars, other, sessionNsfw, inflight, authVars, image>>

\* import.meta.env of the browser bundle.
ClientEnvs ==
    { e \in Envs : /\ e.VITE_FRONTEND_URL = Str("https://frontend.example")
                   /\ e.VITE_BACKEND_URL = Str("https://backend.terrainfinity.ca")
                   /\ e.VITE_VERCEL_ENV = Str("true") }
InitThumb == Init /\ env \in ClientEnvs

NextThumb ==
    \/ fetchThumbnail
    \/ fetchThumbnailResumes
    \/ AcceptNsfw
    \/ ContinueSfw
    \/ getCachedThumbnails
    \/ CallerWrites

SpecThumb == InitThumb /\ [][NextThumb]_vars

(***************************************************************************)
(* app/utils/imageUtils.ts: checkImageExists                               *)
(***************************************************************************)
\* timeoutMs = 5000
DefaultTimeoutMs == 5000
TimeoutsMs == { DefaultTimeoutMs, 100, 1 }
ImageUrls == { "/img/p3.png", "https://cdn.example/t1.jpg", "" }

\* resolve(value): the first call settles the promise, later calls do nothing.
Resolve(check, value) ==
    IF check.promise.state = "pending"
    THEN [ check EXCEPT !.promise = [ state |-> "fulfilled", value |-> value ],
                        !.settled = @ + 1 ]
    ELSE check
\* clearTimeout(timeout)
ClearTimeout(check) ==
    IF check.timer = "armed" THEN [ check EXCEPT !.timer = "cleared" ] ELSE check
Handled(check, event) == [ check EXCEPT !.events = Append(@, event) ]

\* checkImageExists(url, timeoutMs): a new image and a new promise, the timer
\* armed, the handlers set, the load started.  One call at a time: the next
\* starts when the promise of the last is settled.
checkImageExists ==
    /\ ~image.called \/ image.promise.state = "fulfilled"
    /\ \E url \in ImageUrls, timeoutMs \in TimeoutsMs :
        image' = [ NoImageCheck EXCEPT !.called = TRUE, !.url = url,
                                       !.timeoutMs = timeoutMs, !.timer = "armed" ]
    /\ UNCHANGED <<env, invocationVars, other, thumbnailCache, sessionNsfw, inflight,
                   lastCall, authVars>>

\* img.onload
ImageLoads ==
    /\ image.called
    /\ \A i \in 1..Len(image.events) : image.events[i] # "load"
    /\ image' = Handled(Resolve(ClearTimeout(image), TRUE), "load")
    /\ UNCHANGED <<env, invocationVars, other, thumbnailCache, sessionNsfw, inflight,
                   lastCall, authVars>>

\* An onerror that reports the image as found.
ImageFails_ResolvesTrue ==
    /\ image.called
    /\ \A i \in 1..Len(image.events) : image.events[i] # "error"
    /\ image' = Handled(Resolve(ClearTimeout(image), TRUE), "error")
    /\ UNCHANGED <<env, invocationVars, other, thumbnailCache, sessionNsfw, inflight,
                   lastCall, authVars>>

\* img.onerror
ImageFails ==
    /\ image.called
    /\ \A i \in 1..Len(image.events) : image.events[i] # "error"
    /\ image' = Handled(Resolve(ClearTimeout(image), FALSE), "error")
    /\ UNCHANGED <<env, invocationVars, other, thumbnailCache, sessionNsfw, inflight,
                   lastCall, authVars>>

\* The timer's callback; a cleared timer never fires.
TimeoutFires ==
    /\ image.timer = "armed"
    /\ image' = Handled(Resolve([ image EXCEPT !.timer = "fired" ], FALSE), "timeout")
    /\ UNCHANGED <<env, invocationVars, other, thumbnailCache, sessionNsfw, inflight,
                   lastCall, authVars>>

\* The caller's await resumes with the promise's value.
CallerResumes ==
    /\ image.promise.state = "fulfilled"
    /\ image.seen = Null
    /\ image' = [ image EXCEPT !.seen = [ t |-> "boolean", b |-> image.promise.value ] ]
    /\ UNCHANGED <<env, invocationVars, other, thumbnailCache, sessionNsfw, inflight,
                   lastCall, authVars>>

InitImage == Init /\ env \in ClientEnvs

NextImage ==
    \/ checkImageExists
    \/ ImageLoads
    \/ ImageFails
    \/ TimeoutFires
    \/ CallerResumes

\* The browser fires a timer that stays armed.
SpecImage == InitImage /\ [][NextImage]_vars /\ WF_vars(TimeoutFires)

(***************************************************************************)
(* app/context/AuthContext.tsx: the authentication context                 *)
(***************************************************************************)
\* The latest second of the clock.
MaxNow == 3

\* jwtDecode: the payload of a token, or Undefined where it throws
\* InvalidTokenError.  An absent claim is Undefined.
Payload(id, role, exp) == [ id |-> id, role |-> role, exp |-> exp ]
jwtDecode(token) ==
    CASE token = "jwt.admin" -> Payload(Str("u1"), Str("admin"), Num(2))
      [] token = "jwt.norole" -> Payload(Str("u2"), Undefined, Num(2))
      [] token = "jwt.noexp" -> Payload(Str("u3"), Str("user"), Undefined)
      [] token = "jwt.old" -> Payload(Str("u4"), Str("user"), Num(0))
      [] OTHER -> Undefined
\* What login may be handed and localStorage hold: the tokens above, the
\* text of undefined, and the empty string.
Tokens == { "jwt.admin", "jwt.norole", "jwt.noexp", "jwt.old", "undefined", "" }

\* A validation that does not look at exp.
validateToken_NoExpiry(token, currentTime) ==
    IF jwtDecode(token) = Undefined THEN Null ELSE jwtDecode(token)

\* validateToken at the time currentTime: the payload, or Null.
validateToken(token, currentTime) ==
    LET decoded == jwtDecode(token) IN
    IF decoded = Undefined THEN Null
    ELSE IF decoded.exp # Undefined /\ decoded.exp.n >= currentTime THEN decoded
    ELSE Null

\* { id: decoded.id, role: decoded.role || null }
UserOf(decoded) == [ id |-> decoded.id, role |-> Or(decoded.role, Null) ]

\* AuthProvider renders: on the first load of the page, and on every reload.
\* Its state starts from the useState initial values; localStorage stays.
Render ==
    /\ provider \in {"unmounted", "mounted"}
    /\ provider' = "rendered"
    /\ auth' = InitialAuth
    /\ lastAuthOp' = [ op |-> "render" ]
    /\ UNCHANGED <<env, invocationVars, other, thumbVars, localAuthToken, now, lastUseAuth>>

\* The effect of lines 106-126, run once after the first render.
MountEffect ==
    /\ provider = "rendered"
    /\ provider' = "mounted"
    /\ LET storedToken == localAuthToken
           decoded == validateToken(storedToken.s, now)
       IN  IF Truthy(storedToken)
           THEN IF decoded # Null
                THEN /\ auth' = [ isAuthenticated |-> TRUE, user |-> UserOf(decoded),
                                  token |-> storedToken, loading |-> FALSE ]
                     /\ UNCHANGED localAuthToken
                ELSE /\ localAuthToken' = Null
                     /\ auth' = [ auth EXCEPT !.isAuthenticated = FALSE,
                                              !.loading = FALSE ]
           ELSE /\ auth' = [ auth EXCEPT !.loading = FALSE ]
                /\ UNCHANGED localAuthToken
    /\ lastAuthOp' = [ op |-> "mount", stored |-> localAuthToken, at |-> now ]
    /\ UNCHANGED <<env, invocationVars, other, thumbVars, now, lastUseAuth>>

\* A login that sets the user and the token, and not the flag.
login_NoFlag ==
    /\ provider = "mounted"
    /\ \E newToken \in Tokens :
        LET decoded == jwtDecode(newToken) IN
        /\ localAuthToken' = Str(newToken)
        /\ auth' = IF decoded = Undefined THEN auth
                   ELSE [ auth EXCEPT !.user = UserOf(decoded), !.token = Str(newToken) ]
        /\ lastAuthOp' = [ op |-> "login", token |-> newToken,
                           threw |-> decoded = Undefined ]
    /\ UNCHANGED <<env, invocationVars, other, thumbVars, provider, now, lastUseAuth>>

\* login(newToken): the token is stored before it is decoded; when jwtDecode
\* throws, the state stays as it is and the caller gets the exception.
login ==
    /\ provider = "mounted"
    /\ \E newToken \in Tokens :
        LET decoded == jwtDecode(newToken) IN
        /\ localAuthToken' = Str(newToken)
        /\ auth' = IF decoded = Undefined THEN auth
                   ELSE [ auth EXCEPT !.user = UserOf(decoded), !.token = Str(newToken),
                                      !.isAuthenticated = TRUE ]
        /\ lastAuthOp' = [ op |-> "login", token |-> newToken,
                           threw |-> decoded = Undefined ]
    /\ UNCHANGED <<env, invocationVars, other, thumbVars, provider, now, lastUseAuth>>

\* A logout that leaves the user in place.
logout_KeepsUser ==
    /\ provider = "mounted"
    /\ localAuthToken' = Null
    /\ auth' = [ auth EXCEPT !.token = Null, !.isAuthenticated = FALSE ]
    /\ lastAuthOp' = [ op |-> "logout", before |-> auth ]
    /\ UNCHANGED <<env, invocationVars, other, thumbVars, provider, now, lastUseAuth>>

logout ==
    /\ provider = "mounted"
    /\ localAuthToken' = Null
    /\ auth' = [ auth EXCEPT !.token = Null, !.isAuthenticated = FALSE,
                             !.user = defaultUser ]
    /\ lastAuthOp' = [ op |-> "logout", before |-> auth ]
    /\ UNCHANGED <<env, invocationVars, other, thumbVars, provider, now, lastUseAuth>>

\* Time passes.
Tick ==
    /\ now < MaxNow
    /\ now' = now + 1
    /\ UNCHANGED <<env, invocationVars, other, thumbVars, localAuthToken, auth, provider,
                   lastAuthOp, lastUseAuth>>

\* useContext(AuthContext): the provider's value for a component below an
\* AuthProvider, else the default value createContext was given (lines 48-55).
\* Either is an object.
DefaultContext == [ t |-> "object", value |-> InitialAuth ]
UseContext(inside) ==
    IF inside THEN [ t |-> "object", value |-> auth ] ELSE DefaultContext
\* !context
Not(v) == v.t \in {"undefined", "null"} \/ v = Str("")

\* A component calls useAuth, below the provider or not.
useAuth ==
    /\ \E inside \in BOOLEAN :
        /\ inside => provider # "unmounted"
        /\ lastUseAuth' = [ called |-> TRUE, inside |-> inside,
                            threw |-> Not(UseContext(inside)) ]
    /\ UNCHANGED <<env, invocationVars, other, thumbVars, localAuthToken, auth, provider,
                   now, lastAuthOp>>

InitAuth == Init /\ env \in ClientEnvs

NextAuth ==
    \/ Render
    \/ MountEffect
    \/ login
    \/ logout
    \/ Tick
    \/ useAuth

SpecAuth == InitAuth /\ [][NextAuth]_vars

(***************************************************************************)
(* What the claims speak of                                                *)
(***************************************************************************)
BackendCalls == { i \in 1..Len(calls) : calls[i].to # LogServer }
LogCalls == { i \in 1..Len(calls) : calls[i].to = LogServer }

\* The frontend or the backend URL is not configured.
ConfigMissing ==
    \/ env.VITE_FRONTEND_URL \in { Undefined, Str("") }
    \/ env.VITE_BACKEND_URL \in { Undefined, Str("") }

\* The handler has sent its response.
Answered == pc = "done"

HeaderIs(k, v) == k \in DOMAIN res.headers /\ res.headers[k] = v
CorsHeadersSet ==
    {"access-control-allow-origin", "access-control-allow-methods",
     "access-control-allow-headers"} \subseteq DOMAIN res.headers

OriginAllowed ==
    "origin" \in DOMAIN req.headers /\ req.headers["origin"] \in allowedOrigins

\* The forward was made: fetch was handed a request.
Forwarded == outbound.method # ""

\* A backend response arrived and, when 2xx, its body could be read.
BackendAnswered == response # NoResponse /\ ~response.broken

\* The backend's response names no Access-Control-Allow-Origin of its own.
BackendLeavesOrigin == "access-control-allow-origin" \notin DOMAIN response.headers

\* The field k of a JSON object, Undefined when it has none.
Field(v, k) ==
    IF v.t = "object" /\ \E i \in 1..Len(v.f) : v.f[i][1] = k
    THEN v.f[CHOOSE i \in 1..Len(v.f) : v.f[i][1] = k][2]
    ELSE Undefined

\* The sent body is the backend's: the same text, or the same JSON value.
BodyIsBackends ==
    res.body # Undefined
    /\ (JsonStringify(res.body) = response.body \/ res.body = JsonParse(response.body))

\* The preflight answer the spec describes: 204, the three CORS headers, no body.
PreflightAnswer ==
    /\ res.status = 204
    /\ "access-control-allow-origin" \in DOMAIN res.headers
    /\ HeaderIs("access-control-allow-methods", "GET,POST,PUT,DELETE,OPTIONS")
    /\ HeaderIs("access-control-allow-headers", "Content-Type,Authorization")
    /\ res.body = Undefined
    /\ res.sent = 1

(***************************************************************************)
(* C1: a non-OPTIONS request, both URLs configured, the backend answers    *)
(* 2xx with a JSON body: the response has the backend's status, the        *)
(* backend's body and the three CORS headers.                              *)
(***************************************************************************)
C1_OkJsonRelayedIntact ==
    ( /\ Answered
      /\ req.method # "OPTIONS"
      /\ ~ConfigMissing
      /\ BackendAnswered
      /\ Ok(response.status)
      /\ JsonParse(response.body) # Undefined )
    => /\ res.status = response.status
       /\ BodyIsBackends
       /\ CorsHeadersSet

(***************************************************************************)
(* C2 as stated: whenever the request's Origin is in the allow-list, the   *)
(* response's Access-Control-Allow-Origin is that Origin.                  *)
(***************************************************************************)
C2_AllowedOriginAlwaysEchoed ==
    (Answered /\ OriginAllowed)
    => HeaderIs("access-control-allow-origin", req.headers["origin"])

(***************************************************************************)
(* C2 amended: the Origin is in the allow-list, both URLs are configured   *)
(* and the flag is not 'true'; then the preflight answer, and the answer   *)
(* built from a backend response that could be read and names no           *)
(* Access-Control-Allow-Origin itself, carry that Origin.                  *)
(***************************************************************************)
C2_AllowedOriginEchoed ==
    ( /\ Answered
      /\ OriginAllowed
      /\ ~ConfigMissing
      /\ env.VITE_VERCEL_ENV # Str("true")
      /\ \/ req.method = "OPTIONS"
         \/ BackendAnswered /\ BackendLeavesOrigin )
    => HeaderIs("access-control-allow-origin", req.headers["origin"])

C2_Witness ==
    /\ Answered
    /\ OriginAllowed
    /\ env.VITE_VERCEL_ENV = Str("false")
    /\ req.method = "GET"
    /\ BackendAnswered
    /\ HeaderIs("access-control-allow-origin", "http://localhost:3000")

(***************************************************************************)
(* C3 as stated: whenever the request's Origin is missing or outside the   *)
(* allow-list, the response's Access-Control-Allow-Origin is the           *)
(* configured frontend URL.                                                *)
(***************************************************************************)
C3_OtherOriginAlwaysFrontend ==
    (Answered /\ ~OriginAllowed /\ env.VITE_FRONTEND_URL \notin { Undefined, Str("") })
    => HeaderIs("access-control-allow-origin", env.VITE_FRONTEND_URL.s)

(***************************************************************************)
(* C3 amended: the Origin is missing or outside the allow-list and both    *)
(* URLs are configured; then the preflight answer, and the answer built    *)
(* from a backend response that could be read and names no                 *)
(* Access-Control-Allow-Origin itself, carry the frontend URL.             *)
(***************************************************************************)
C3_OtherOriginFrontend ==
    ( /\ Answered
      /\ ~OriginAllowed
      /\ ~ConfigMissing
      /\ \/ req.method = "OPTIONS"
         \/ BackendAnswered /\ BackendLeavesOrigin )
    => HeaderIs("access-control-allow-origin", env.VITE_FRONTEND_URL.s)

C3_Witness ==
    /\ Answered
    /\ "origin" \in DOMAIN req.headers
    /\ req.headers["origin"] = "https://evil.example"
    /\ env.VITE_VERCEL_ENV # Str("true")
    /\ req.method = "POST"
    /\ BackendAnswered
    /\ HeaderIs("access-control-allow-origin", "https://frontend.example")

(***************************************************************************)
(* C4: with VITE_VERCEL_ENV = 'true' the origin the handler resolves is    *)
(* the frontend URL, whatever the request's Origin.                        *)
(***************************************************************************)
C4_FlagForcesFrontendUrl ==
    (env.VITE_VERCEL_ENV = Str("true") /\ origin # Undefined)
    => origin = env.VITE_FRONTEND_URL

C4_Witness ==
    /\ env.VITE_VERCEL_ENV = Str("true")
    /\ OriginAllowed
    /\ origin = Str("https://frontend.example")

(***************************************************************************)
(* C5 as stated: an OPTIONS request never reaches the backend and is       *)
(* always answered 204 with the three CORS headers and no body.            *)
(***************************************************************************)
C5_OptionsAlways204 ==
    (req.method = "OPTIONS")
    => /\ BackendCalls = {}
       /\ ~Forwarded
       /\ Answered => PreflightAnswer

(***************************************************************************)
(* C5 amended: an OPTIONS request never reaches the backend, and when      *)
(* both URLs are configured it is answered 204 with the three CORS         *)
(* headers and no body; with a URL missing it is answered 500.             *)
(***************************************************************************)
C5_OptionsNeverForwarded ==
    (req.method = "OPTIONS")
    => /\ BackendCalls = {}
       /\ ~Forwarded
       /\ (Answered /\ ~ConfigMissing) => PreflightAnswer
       /\ (Answered /\ ConfigMissing) => res.status = 500

C5_Witness ==
    /\ req.method = "OPTIONS"
    /\ Answered
    /\ ~ConfigMissing
    /\ res.status = 204

(***************************************************************************)
(* C6: a backend answer that is not 2xx is relayed with its status and     *)
(* its own body.                                                           *)
(***************************************************************************)
C6_ErrorStatusRelayedWithBody ==
    (Answered /\ BackendAnswered /\ ~Ok(response.status))
    => /\ res.status = response.status
       /\ BodyIsBackends

(***************************************************************************)
(* C7: when the forward fails (fetch rejects, or anything in the try       *)
(* block throws) the answer is 500 with error 'Failed to proxy request'    *)
(* and a non-empty string as details.                                      *)
(***************************************************************************)
C7_FailedForwardEnvelope ==
    (Answered /\ error # NoError)
    => /\ res.status = 500
       /\ res.sent = 1
       /\ Field(res.body, "error") = Str("Failed to proxy request")
       /\ Field(res.body, "details").t = "string"
       /\ Field(res.body, "details").s # ""

C7_Witness ==
    /\ Answered
    /\ error \in FetchFailures
    /\ response = NoResponse
    /\ res.status = 500

C9_ThumbnailCacheControl ==
    (Answered /\ IsThumbnailRoute(req.url) /\ BackendAnswered)
    => HeaderIs("cache-control", "public, max-age=86400")

PlatformNames == { "x-vercel-id", "x-vercel-forwarded-for" }

C11_BackendHeadersFiltered ==
    Forwarded
    => /\ DOMAIN outbound.headers = (DOMAIN req.headers \ PlatformNames) \cup {"host"}
       /\ outbound.headers["host"] = "backend.terrainfinity.ca"
       /\ \A k \in DOMAIN req.headers \ (PlatformNames \cup {"host"}) :
              outbound.headers[k] = req.headers[k]

C11_Witness ==
    /\ Forwarded
    /\ "x-vercel-id" \in DOMAIN req.headers
    /\ "origin" \in DOMAIN req.headers
    /\ "x-forwarded-for" \in DOMAIN outbound.headers
    /\ "x-vercel-id" \notin DOMAIN outbound.headers

(***************************************************************************)
(* C12: no body is forwarded for GET and HEAD; for any other method the    *)
(* request body is forwarded, JSON-serialized only when it is not already  *)
(* a string.                                                               *)
(***************************************************************************)
C12_BodyForwardedAsIsWhenString ==
    Forwarded
    => outbound.body =
         ( IF req.method \in {"GET", "HEAD"} \/ req.body = Undefined THEN Undefined
           ELSE IF req.body.t = "string" THEN req.body
           ELSE Str(JsonStringify(req.body)) )

(***************************************************************************)
(* C13 as stated: a request handled while VITE_VERCEL_ENV is absent is     *)
(* answered 500 with a JSON body { error: string }.                        *)
(***************************************************************************)
C13_AbsentFlagIsConfigError ==
    (Answered /\ env.VITE_VERCEL_ENV = Undefined)
    => /\ res.status = 500
       /\ Field(res.body, "error").t = "string"

(***************************************************************************)
(* C13 amended: the flag is optional.  With both URLs configured and the   *)
(* flag absent no configuration error is answered: the origin is resolved  *)
(* as for any value other than 'true' (an allow-listed Origin is echoed)   *)
(* and a preflight gets its 204.                                           *)
(***************************************************************************)
ConfigErrorBodies ==
    { Obj(<< <<"error", Str("VITE_FRONTEND_URL environment variable is not set")>> >>),
      Obj(<< <<"error", Str("VITE_BACKEND_URL environment variable is not set")>> >>) }

C13_AbsentFlagIsNotAnError ==
    (env.VITE_VERCEL_ENV = Undefined /\ ~ConfigMissing)
    => /\ (origin # Undefined /\ OriginAllowed) => origin = Str(req.headers["origin"])
       /\ (origin # Undefined /\ ~OriginAllowed) => origin = env.VITE_FRONTEND_URL
       /\ Answered => res.body \notin ConfigErrorBodies
       /\ (Answered /\ req.method = "OPTIONS") => res.status = 204

C13_Witness ==
    /\ env.VITE_VERCEL_ENV = Undefined
    /\ Answered
    /\ req.method = "OPTIONS"
    /\ OriginAllowed
    /\ res.status = 204
    /\ HeaderIs("access-control-allow-origin", req.headers["origin"])

\* C14: the handler holds no state between invocations.  Of two invocations
\* that have answered, the running one and the suspended one, whatever ran
\* before them in the process and however their steps interleaved: the same
\* request, under the one configuration, with the same backend behaviour (the
\* same response, or the same failure) gives the same status, headers and body.
SameInputs ==
    /\ req = other.req
    /\ response = other.response
    /\ error = other.error
C14_NoStateBetweenInvocations ==
    (pc = "done" /\ other.pc = "done" /\ SameInputs) => res = other.res
\* Both invocations relayed the same non-2xx backend answer for the same request.
C14_Witness ==
    /\ pc = "done" /\ other.pc = "done"
    /\ SameInputs
    /\ response # NoResponse
    /\ res = other.res
    /\ res.status = 404

\* C15, as stated: once a key holds a value, that value is never removed or
\* replaced.  Seen at a return of fetchThumbnail: every entry the cache had
\* just before the return is there, unchanged, after it.
C15_CachedValueNeverReplaced ==
    lastCall.op = "fetchThumbnail"
    => \A k \in DOMAIN lastCall.before :
           k \in DOMAIN thumbnailCache /\ thumbnailCache[k] = lastCall.before[k]

\* C15, amended: the cache starts empty and every change of it is the store of
\* a returning fetchThumbnail under its post's key; no key is ever removed, and
\* a value is replaced only by a call that was waiting for its request, which
\* it issued while the key held no value; a call made while the key holds a
\* value returns that value, stores nothing and issues no request; what
\* getCachedThumbnails returns has the cache's entries, and writing into it
\* leaves the cache as it is.
FetchReturns == lastCall' # lastCall /\ lastCall'.op = "fetchThumbnail"
C15_Step ==
    /\ thumbnailCache' # thumbnailCache
       => /\ FetchReturns
          /\ thumbnailCache' = CachePut(thumbnailCache, CacheKey(lastCall'.blog),
                                        lastCall'.result)
    /\ \A k \in DOMAIN thumbnailCache :
          /\ k \in DOMAIN thumbnailCache'
          /\ thumbnailCache'[k] # thumbnailCache[k] => lastCall'.requested
    /\ Len(inflight') > Len(inflight)
       => CacheKey(inflight'[Len(inflight')].blog) \notin DOMAIN thumbnailCache
    /\ (FetchReturns /\ ~lastCall'.requested
            /\ CacheKey(lastCall'.blog) \in DOMAIN thumbnailCache)
       => /\ lastCall'.result = thumbnailCache[CacheKey(lastCall'.blog)]
          /\ thumbnailCache' = thumbnailCache
          /\ inflight' = inflight
    /\ (lastCall' # lastCall /\ lastCall'.op = "getCachedThumbnails"
            /\ lastCall.op # "getCachedThumbnails")
       => lastCall'.result = thumbnailCache
C15_CacheChangedOnlyByFetchThumbnail ==
    thumbnailCache = NoHeaders /\ [][C15_Step]_vars
\* A call for a key whose value came from the proxy-thumbnail request returned
\* that value from the cache.
C15_Witness ==
    /\ lastCall.op = "fetchThumbnail"
    /\ lastCall.how = "cached"
    /\ ~lastCall.requested
    /\ lastCall.result = "https://cdn.example/t1.jpg"
    /\ thumbnailCache[CacheKey(lastCall.blog)] = lastCall.result

\* C16: a fetchThumbnail call for an age-restricted post, made while the
\* disclaimer's choice in sessionStorage is not 'true', returns the NSFW
\* placeholder, whatever calls and choices came before.
C16_RestrictedPostGetsPlaceholder ==
    (lastCall.op = "fetchThumbnail" /\ lastCall.blog.isAgeRestricted
        /\ lastCall.session # Str("true"))
    => lastCall.result = NsfwImage

\* C20: every fetchThumbnail call returns a non-empty URL and has stored it
\* under the post's key; when its request failed or brought no thumbnail, the
\* URL is the post's blogImage if it has one, else the default image for the
\* post's age restriction.
C20_FetchThumbnailFallsBack ==
    lastCall.op = "fetchThumbnail"
    => /\ lastCall.result # ""
       /\ CacheKey(lastCall.blog) \in DOMAIN thumbnailCache
       /\ thumbnailCache[CacheKey(lastCall.blog)] = lastCall.result
       /\ lastCall.how \in {"error", "noThumbnail"}
          => lastCall.result =
                IF lastCall.blog.blogImage \notin {Undefined, Str("")}
                THEN lastCall.blog.blogImage.s
                ELSE IF lastCall.blog.isAgeRestricted
                     THEN "/assets/images/NSFW.jpg"
                     ELSE "/assets/images/consciousness.jpg"
\* The request of a post without an image failed: the default image.
C20_Witness ==
    /\ lastCall.op = "fetchThumbnail"
    /\ lastCall.how = "error"
    /\ lastCall.requested
    /\ lastCall.blog.blogImage = Undefined
    /\ lastCall.result = "/assets/images/consciousness.jpg"
    /\ thumbnailCache[CacheKey(lastCall.blog)] = lastCall.result

\* C17, as stated: after the mount effect, a stored token that decoded with an
\* exp not in the past is the context's token, with its id and role, and the
\* context is authenticated; any other stored token is gone from localStorage
\* and the context is unauthenticated with a null token; loading is false, and
\* stays false while the provider is mounted.
StoredValid(stored, at) ==
    /\ jwtDecode(stored.s) # Undefined
    /\ jwtDecode(stored.s).exp # Undefined
    /\ jwtDecode(stored.s).exp.n >= at
MountAuthenticated(stored) ==
    /\ auth.isAuthenticated
    /\ auth.token = stored
    /\ auth.user.id = jwtDecode(stored.s).id
    /\ auth.user.role = ( IF jwtDecode(stored.s).role = Undefined THEN Null
                          ELSE jwtDecode(stored.s).role )
    /\ localAuthToken = stored
MountUnauthenticated == ~auth.isAuthenticated /\ auth.token = Null
C18_LogoutClears ==
    lastAuthOp.op = "logout"
    => /\ localAuthToken = Null
       /\ auth.token = Null
       /\ ~auth.isAuthenticated
       /\ auth.user = [ id |-> Str(""), role |-> Null ]
\* The logout of an authenticated administrator.
C18_Witness ==
    /\ lastAuthOp.op = "logout"
    /\ lastAuthOp.before.isAuthenticated
    /\ lastAuthOp.before.user.role = Str("admin")
    /\ localAuthToken = Null
    /\ auth.token = Null
    /\ auth.user = [ id |-> Str(""), role |-> Null ]

\* C19: useAuth, called by a component that is not below an AuthProvider,
\* throws.
C19_UseAuthThrowsOutsideProvider ==
    (lastUseAuth.called /\ ~lastUseAuth.inside) => lastUseAuth.threw

\* C21: checkImageExists resolves exactly once.  As soon as one of load, error
\* and timeout has been handled the promise is settled, once, with true when
\* load was first and false when error or timeout was first; later events
\* leave it so, and the caller sees that value; and a pending call is always
\* settled in the end.
C21_Settled ==
    (image.called /\ image.events # << >>)
    => /\ image.promise.state = "fulfilled"
       /\ image.promise.value = (image.events[1] = "load")
       /\ image.settled = 1
       /\ image.seen # Null => image.seen.b = (image.events[1] = "load")
C21_Unsettled ==
    (image.called /\ image.events = << >>)
    => image.promise.state = "pending" /\ image.settled = 0 /\ image.seen = Null
C21_FirstEventDecides ==
    /\ [](C21_Settled /\ C21_Unsettled)
    /\ (image.called /\ image.promise.state = "pending")
          ~> (image.promise.state = "fulfilled")
\* The timeout came first, then the load event, then the error event: false.
C21_Witness ==
    /\ image.events = <<"timeout", "load", "error">>
    /\ image.promise = [ state |-> "fulfilled", value |-> FALSE ]
    /\ image.settled = 1
    /\ image.seen # Null
    /\ image.seen.b = FALSE

\* C22: with the frontend or the backend URL missing, the answer is 500 with
\* a JSON body whose only field, error, names the missing variable, the
\* frontend's when both are missing; the origin was not resolved, no CORS
\* header was set, the method made no difference, and nothing was forwarded.
FrontendMissing == env.VITE_FRONTEND_URL \in { Undefined, Str("") }
C22_ConfigErrorNamesVariable ==
    (Answered /\ ConfigMissing)
    => /\ res.status = 500
       /\ res.sent = 1
       /\ res.body.t = "object" /\ Len(res.body.f) = 1
       /\ Field(res.body, "error") =
            Str(IF FrontendMissing
                THEN "VITE_FRONTEND_URL environment variable is not set"
                ELSE "VITE_BACKEND_URL environment variable is not set")
       /\ origin = Undefined
       /\ "access-control-allow-origin" \notin DOMAIN res.headers
       /\ ~Forwarded
       /\ BackendCalls = {}
\* A preflight with both URLs missing: 500 naming the frontend URL, not 204.
C22_Witness ==
    /\ Answered
    /\ req.method = "OPTIONS"
    /\ env.VITE_FRONTEND_URL = Undefined
    /\ env.VITE_BACKEND_URL = Undefined
    /\ res.status = 500
    /\ Field(res.body, "error") = Str("VITE_FRONTEND_URL environment variable is not set")
    /\ origin = Undefined

\* C23: the backend's headers are copied after the relay's CORS headers.  In
\* every answer to a request the backend answered, each header of the backend
\* has the backend's value; so has Access-Control-Allow-Origin when the
\* backend sent one, while the relay's other CORS headers, which the backend
\* did not send, stand.
C23_BackendHeadersWin ==
    (Answered /\ BackendAnswered)
    => /\ \A k \in DOMAIN response.headers : HeaderIs(k, response.headers[k])
       /\ CorsHeadersSet
       /\ "access-control-allow-methods" \notin DOMAIN response.headers
          => HeaderIs("access-control-allow-methods", "GET,POST,PUT,DELETE,OPTIONS")
\* The relay resolved the request's allowed origin, the backend sent a
\* wildcard: the answer carries the wildcard.
C23_Witness ==
    /\ Answered /\ BackendAnswered
    /\ res.status = 404
    /\ OriginAllowed
    /\ origin = Str(req.headers["origin"])
    /\ response.headers = [ k \in {"access-control-allow-origin"} |-> "*" ]
    /\ HeaderIs("access-control-allow-origin", "*")

\* C24: every invocation ends with exactly one response sent.  No invocation
\* has sent two, and one that has ended, by returning or by throwing, has
\* sent one.
C24_ExactlyOneResponse ==
    /\ res.sent <= 1
    /\ pc \in {"done", "crashed"} => res.sent = 1

\* C25: in every state of AuthProvider, isAuthenticated is true exactly when
\* the context's token is not null, and user is the default user whenever the
\* token is null.
C25_FlagFollowsToken ==
    /\ auth.isAuthenticated <=> auth.token # Null
    /\ auth.token = Null => auth.user = [ id |-> Str(""), role |-> Null ]
\* A login whose token could not be decoded, made while an administrator was
\* logged in, left the three as they were.
C25_Witness ==
    /\ lastAuthOp.op = "login"
    /\ lastAuthOp.threw
    /\ auth.isAuthenticated
    /\ auth.token = Str("jwt.admin")
    /\ auth.user.role = Str("admin")

\* C26: once the mount effect has run, localStorage holds an authToken
\* exactly when the context's token is not null, and then the one is the
\* other.
C26_StorageFollowsToken ==
    provider = "mounted"
    => /\ localAuthToken # Null <=> auth.token # Null
       /\ auth.token # Null => localAuthToken = auth.token

====
